---- MODULE Spec2Model ----
(***************************************************************************)
(* A model of the demo web service of src/agent/app.py: the bootstrap of   *)
(* the user store and the four request handlers /user, /run, /read and     *)
(* /config, served concurrently by the threaded development server.        *)
(*                                                                         *)
(* Text is a sequence of symbols.  An `id` parameter is a sequence over    *)
(* IdAlphabet, where "OR" stands for the five characters " OR " and "NUL"  *)
(* for the character U+0000.  Bytes and code points are integers.          *)
(***************************************************************************)
EXTENDS Integers, Sequences, FiniteSets, TLC

\* ------------------------------------------------------------------ bounds
MaxReq == 2          \* request slots served concurrently
MaxIdLen == 4        \* longest `id` parameter, in symbols
MaxPathLen == 4      \* longest `file` parameter, in path segments

Slots == 1..MaxReq

\* --------------------------------------------------------------- sequences
RECURSIVE SeqsUpTo(_, _)
SeqsUpTo(S, n) ==
    IF n = 0 THEN {<<>>}
    ELSE LET shorter == SeqsUpTo(S, n - 1)
         IN  shorter \cup {Append(s, x) : s \in {t \in shorter : Len(t) = n - 1}, x \in S}

Contains(s, x) == \E i \in 1..Len(s) : s[i] = x

\* ------------------------------------------------------- request parameters
Given(v) == [present |-> TRUE, value |-> v]
Missing == [present |-> FALSE, value |-> <<>>]

ArgsGet(param, default) == IF param.present THEN param.value ELSE default

\* -------------------------------------------------------------- the store
DB_PATH == "test.db"

Row(id, username) == <<id, username>>

SeedRows == <<Row(<<"1">>, "alice"), Row(<<"2">>, "bob")>>

AbsentStore == [file |-> "absent", table |-> FALSE, rows |-> <<>>]
EmptyFile == [file |-> "db", table |-> FALSE, rows |-> <<>>]
GarbageFile == [file |-> "garbage", table |-> FALSE, rows |-> <<>>]
Database(rows) == [file |-> "db", table |-> TRUE, rows |-> rows]

\* What may lie at DB_PATH before the first start of the process.
StartupStores ==
    { AbsentStore, EmptyFile, GarbageFile, Database(SeedRows),
      Database(<<Row(<<"1">>, "carol"), Row(<<"1">>, "dave"), Row(<<"1", "2">>, "erin")>>) }

\* the file opened for writing afresh at every connect
ConnectStoreAfresh(st) == EmptyFile

\* sqlite3.connect(DB_PATH) creates an empty file when there is none.
ConnectStore(st) == IF st.file = "absent" THEN EmptyFile ELSE st

\* ------------------------------------------------- the SQL statement of /user
IdAlphabet == {"1", "2", "'", "OR", "=", "NUL"}

SelectPrefix == "SELECT id, username FROM users WHERE id = "

\* the quotes of user_id doubled before it is put between the quotes
RECURSIVE EscapeQuotes(_)
EscapeQuotes(text) ==
    IF text = <<>> THEN <<>>
    ELSE (IF Head(text) = "'" THEN <<"'", "'">> ELSE <<Head(text)>>) \o EscapeQuotes(Tail(text))

BuildQueryEscaped(user_id) == <<SelectPrefix, "'">> \o EscapeQuotes(user_id) \o <<"'">>

\* f"SELECT id, username FROM users WHERE id = '{user_id}'"
BuildQuery(user_id) == <<SelectPrefix, "'">> \o user_id \o <<"'">>

IsDigit(c) == c \in {"1", "2"}

Token(t, v) == [t |-> t, v |-> v]

\* The rest of a string literal whose opening quote precedes position j:
\* '' inside the literal is one quote, a single ' ends it.
RECURSIVE ScanString(_, _, _)
ScanString(s, j, acc) ==
    IF j > Len(s) THEN [ok |-> FALSE, content |-> acc, next |-> j]
    ELSE IF s[j] = "'"
         THEN IF j + 1 <= Len(s) /\ s[j + 1] = "'"
              THEN ScanString(s, j + 2, Append(acc, "'"))
              ELSE [ok |-> TRUE, content |-> acc, next |-> j + 1]
         ELSE ScanString(s, j + 1, Append(acc, s[j]))

RECURSIVE ScanDigits(_, _)
ScanDigits(s, j) == IF j <= Len(s) /\ IsDigit(s[j]) THEN ScanDigits(s, j + 1) ELSE j

\* SQLite's tokenizer on the symbols of the WHERE clause's right-hand side.
RECURSIVE Lex(_, _, _)
Lex(s, i, toks) ==
    IF i > Len(s) THEN [ok |-> TRUE, toks |-> toks]
    ELSE CASE s[i] = "'" ->
                LET lit == ScanString(s, i + 1, <<>>)
                IN  IF lit.ok
                    THEN Lex(s, lit.next, Append(toks, Token("STR", lit.content)))
                    ELSE [ok |-> FALSE, toks |-> toks]
           [] IsDigit(s[i]) ->
                LET j == ScanDigits(s, i)
                IN  Lex(s, j, Append(toks, Token("NUM", SubSeq(s, i, j - 1))))
           [] s[i] = "OR" -> Lex(s, i + 1, Append(toks, Token("OR", <<>>)))
           [] s[i] = "=" ->
                Lex(s, IF i + 1 <= Len(s) /\ s[i + 1] = "=" THEN i + 2 ELSE i + 1,
                    Append(toks, Token("EQ", <<>>)))
           [] OTHER -> [ok |-> FALSE, toks |-> toks]

\* operand (operator operand)*
WellFormed(toks) ==
    /\ Len(toks) % 2 = 1
    /\ \A k \in 1..Len(toks) :
          IF k % 2 = 1 THEN toks[k].t \in {"STR", "NUM"} ELSE toks[k].t \in {"OR", "EQ"}

\* A value used as a condition: an integer is true when non-zero, a text when
\* its numeric prefix is non-zero (the digits of the alphabet are 1 and 2).
Truthy(v) ==
    CASE v.t = "INT" -> v.v # <<"0">>
      [] v.t = "NUM" -> TRUE
      [] OTHER -> v.v # <<>> /\ IsDigit(v.v[1])

BoolValue(b) == Token("INT", IF b THEN <<"1">> ELSE <<"0">>)

\* a = b.  The column id has TEXT affinity, which is applied to the other
\* operand; literals and comparison results have none, so an integer and a
\* text are then never equal.
SqlEq(a, b) ==
    CASE a.t = "COL" -> BoolValue(a.v = b.v)
      [] a.t = "INT" -> BoolValue(b.t = "NUM" /\ a.v = b.v)
      [] OTHER -> BoolValue(a.t = b.t /\ a.v = b.v)

\* id = toks[1] op toks[2] ..., = binding tighter than OR, both left to right.
\* cur is the value of the comparison chain being read, res the OR of the
\* chains before it.
RECURSIVE EvalWhere(_, _, _, _)
EvalWhere(toks, k, cur, res) ==
    IF k > Len(toks) THEN res \/ Truthy(cur)
    ELSE IF toks[k].t = "EQ"
         THEN EvalWhere(toks, k + 2, SqlEq(cur, toks[k + 1]), res)
         ELSE EvalWhere(toks, k + 2, toks[k + 1], res \/ Truthy(cur))

Where(toks, row) == EvalWhere(toks, 2, SqlEq(Token("COL", row[1]), toks[1]), FALSE)

NoFault == "none"

\* conn.execute(query).fetchall() against the store as it is at that moment.
Execute(query, st) ==
    LET rhs == SubSeq(query, 2, Len(query))
        lexed == Lex(rhs, 1, <<>>)
        Match(row) == Where(lexed.toks, row)
    IN  CASE Contains(query, "NUL") ->
               [fault |-> "ProgrammingError: the query contains a null character", rows |-> <<>>]
          [] ~lexed.ok \/ ~WellFormed(lexed.toks) ->
               [fault |-> "OperationalError: syntax error", rows |-> <<>>]
          [] st.file = "garbage" ->
               [fault |-> "DatabaseError: file is not a database", rows |-> <<>>]
          [] ~st.table ->
               [fault |-> "OperationalError: no such table: users", rows |-> <<>>]
          [] OTHER -> [fault |-> NoFault, rows |-> SelectSeq(st.rows, Match)]

\* ------------------------------------------------------------------ UTF-8
\* bytes.decode("utf-8") for sequences of one and two bytes, the ones the
\* files and outputs of this model are made of; a byte that starts neither
\* is a UnicodeDecodeError.
RECURSIVE DecodeFrom(_, _, _)
DecodeFrom(b, i, acc) ==
    IF i > Len(b) THEN [ok |-> TRUE, text |-> acc]
    ELSE IF b[i] < 128 THEN DecodeFrom(b, i + 1, Append(acc, b[i]))
    ELSE IF b[i] \in 194..223 /\ i + 1 <= Len(b) /\ b[i + 1] \in 128..191
         THEN DecodeFrom(b, i + 2, Append(acc, (b[i] - 192) * 64 + (b[i + 1] - 128)))
         ELSE [ok |-> FALSE, text |-> acc]

Utf8Decode(b) == DecodeFrom(b, 1, <<>>)

\* The response body of a text: Flask encodes it as UTF-8.
RECURSIVE Utf8Encode(_)
Utf8Encode(text) ==
    IF text = <<>> THEN <<>>
    ELSE LET c == Head(text)
         IN  (IF c < 128 THEN <<c>> ELSE <<192 + (c \div 64), 128 + (c % 64)>>)
             \o Utf8Encode(Tail(text))

\* Universal newlines of a file opened in text mode: \r\n and \r read as \n.
RECURSIVE TranslateNewlines(_)
TranslateNewlines(text) ==
    IF text = <<>> THEN <<>>
    ELSE IF Head(text) = 13
         THEN IF Len(text) >= 2 /\ text[2] = 10
              THEN <<10>> \o TranslateNewlines(Tail(Tail(text)))
              ELSE <<10>> \o TranslateNewlines(Tail(text))
         ELSE <<Head(text)>> \o TranslateNewlines(Tail(text))

\* ---------------------------------------------------------- the file system
\* Locations are absolute, the list of names from the root.
Cwd == <<"srv", "app">>

Dirs == {<<>>, <<"etc">>, <<"srv">>, <<"srv", "app">>}

FilePaths ==
    { <<"etc", "passwd">>, <<"srv", "app", "README.md">>,
      <<"srv", "app", "bin.dat">>, <<"srv", "app", "secret">> }

FileBytes(loc) ==
    CASE loc = <<"etc", "passwd">> -> <<114, 111, 111, 116, 10>>          \* root\n
      [] loc = <<"srv", "app", "README.md">> -> <<35, 195, 169, 13, 10>>  \* #e-acute\r\n
      [] loc = <<"srv", "app", "bin.dat">> -> <<97, 255>>                 \* not UTF-8
      [] OTHER -> <<>>

Readable(loc) == loc # <<"srv", "app", "secret">>

Segments == {"..", "etc", "passwd", "README.md", "bin.dat", "secret", "does-not-exist.txt"}

Path(abs, segs) == [abs |-> abs, segs |-> segs]

ReadmePath == Path(FALSE, <<"README.md">>)

Parent(loc) == IF loc = <<>> THEN <<>> ELSE SubSeq(loc, 1, Len(loc) - 1)

\* The kernel's walk of a path, one name at a time from loc.
RECURSIVE Walk(_, _, _)
Walk(loc, segs, i) ==
    IF i > Len(segs) THEN [errno |-> 0, loc |-> loc]
    ELSE IF loc \notin Dirs THEN [errno |-> 20, loc |-> loc]
    ELSE IF segs[i] = ".." THEN Walk(Parent(loc), segs, i + 1)
    ELSE IF Append(loc, segs[i]) \in Dirs \cup FilePaths
         THEN Walk(Append(loc, segs[i]), segs, i + 1)
         ELSE [errno |-> 2, loc |-> loc]

Resolve(path) ==
    IF ~path.abs /\ path.segs = <<>> THEN [errno |-> 2, loc |-> Cwd]
    ELSE Walk(IF path.abs THEN <<>> ELSE Cwd, path.segs, 1)

InsideCwd(loc) == Len(loc) >= Len(Cwd) /\ SubSeq(loc, 1, Len(Cwd)) = Cwd

\* open(filename, "r", encoding="utf-8") and f.read(): the text, or the fault.
OpenAndRead(path) ==
    LET r == Resolve(path)
        decoded == Utf8Decode(FileBytes(r.loc))
    IN  CASE r.errno # 0 -> [fault |-> "OSError", errno |-> r.errno, text |-> <<>>]
          [] r.loc \in Dirs -> [fault |-> "OSError", errno |-> 21, text |-> <<>>]
          [] ~Readable(r.loc) -> [fault |-> "OSError", errno |-> 13, text |-> <<>>]
          [] ~decoded.ok -> [fault |-> "UnicodeDecodeError", errno |-> 0, text |-> <<>>]
          [] OTHER -> [fault |-> NoFault, errno |-> 0, text |-> TranslateNewlines(decoded.text)]

RECURSIVE JoinSegs(_)
JoinSegs(segs) ==
    IF segs = <<>> THEN <<>>
    ELSE IF Len(segs) = 1 THEN segs
    ELSE <<Head(segs), "/">> \o JoinSegs(Tail(segs))

PathText(path) == (IF path.abs THEN <<"/">> ELSE <<>>) \o JoinSegs(path.segs)

StrError(errno) ==
    CASE errno = 2 -> "[Errno 2] No such file or directory: "
      [] errno = 13 -> "[Errno 13] Permission denied: "
      [] errno = 20 -> "[Errno 20] Not a directory: "
      [] OTHER -> "[Errno 21] Is a directory: "

\* str(e) of the fault of OpenAndRead
ExceptionText(read, path) ==
    IF read.fault = "OSError"
    THEN <<StrError(read.errno), "'">> \o PathText(path) \o <<"'">>
    ELSE <<"'utf-8' codec can't decode byte: invalid start byte">>

\* ------------------------------------------------------------------ the shell
EchoHello == "echo Hello"
Truncate == ": > test.db"
NulCommand == "echo a<NUL>b"

Commands ==
    { EchoHello, "exit 3", "echo E >&2; exit 1", "printf '\\377'",
      "printf '\\377' >&2; exit 1", "printf 'caf\\303\\251'", "kill -9 $$",
      Truncate, NulCommand }

Exited(code, out, err, st) == [code |-> code, out |-> out, err |-> err, store |-> st]

\* What /bin/sh -c cmd does in the working directory, where DB_PATH lies:
\* its return code, what it wrote to stdout and stderr, and the store after.
ShellRun(cmd, st) ==
    CASE cmd = EchoHello -> Exited(0, <<72, 101, 108, 108, 111, 10>>, <<>>, st)
      [] cmd = "exit 3" -> Exited(3, <<>>, <<>>, st)
      [] cmd = "echo E >&2; exit 1" -> Exited(1, <<>>, <<69, 10>>, st)
      [] cmd = "printf '\\377'" -> Exited(0, <<255>>, <<>>, st)
      [] cmd = "printf '\\377' >&2; exit 1" -> Exited(1, <<>>, <<255>>, st)
      [] cmd = "printf 'caf\\303\\251'" -> Exited(0, <<99, 97, 102, 195, 169>>, <<>>, st)
      [] cmd = "kill -9 $$" -> Exited(0 - 9, <<>>, <<>>, st)
      [] cmd = Truncate -> Exited(0, <<>>, <<>>, EmptyFile)
      [] OTHER -> Exited(127, <<>>, <<>>, st)

\* subprocess.Popen raises ValueError on a command with an embedded NUL.
SpawnFault(cmd) == IF cmd = NulCommand THEN "ValueError: embedded null byte" ELSE NoFault

\* os.system's return value, the wait status of the shell, as Python prints it.
WaitStatus(code) ==
    CASE code = 0 -> "0"
      [] code = 1 -> "256"
      [] code = 3 -> "768"
      [] code = 0 - 9 -> "9"
      [] OTHER -> "32512"

\* ------------------------------------------------------- the YAML documents
\* A request body: whether its bytes are UTF-8, whether the text is
\* well-formed YAML, and the node the composer builds of it.
Node(kind, tag, data) == [kind |-> kind, tag |-> tag, data |-> data]
Body(node) == [utf8 |-> TRUE, wellformed |-> TRUE, node |-> node]

EmptyBody == Body(Node("empty", "null", <<>>))
NotUtf8Body == [utf8 |-> FALSE, wellformed |-> TRUE, node |-> Node("empty", "null", <<>>)]
MalformedBody == [utf8 |-> TRUE, wellformed |-> FALSE, node |-> Node("empty", "null", <<>>)]

PlainBodies ==
    { EmptyBody,
      Body(Node("scalar", "str", <<"hello">>)),      \* hello
      Body(Node("scalar", "int", <<"42">>)),         \* 42
      Body(Node("seq", "seq", <<"1", "2">>)),        \* [1, 2]
      Body(Node("map", "map", <<"a", "1">>)) }       \* a: 1

ApplySystem(cmd) == Body(Node("seq", "python/object/apply:os.system", <<cmd>>))

\* Bodies whose tag directs the loader to build or call a Python object.
DirectiveBodies ==
    { Body(Node("seq", "python/tuple", <<"1", "2">>)),           \* !!python/tuple [1, 2]
      ApplySystem(EchoHello), ApplySystem("exit 3"), ApplySystem(Truncate),
      Body(Node("scalar", "python/name:os.system", <<>>)),       \* !!python/name:os.system
      Body(Node("seq", "python/object/apply:nosuch.f", <<>>)) }  \* !!python/object/apply:nosuch.f []

Bodies == PlainBodies \cup DirectiveBodies \cup {NotUtf8Body, MalformedBody}

IsDirective(body) == body \in DirectiveBodies

PyValue(type, data) == [type |-> type, data |-> data]
Constructed(value, st) == [fault |-> NoFault, value |-> value, store |-> st]

\* yaml.load(body, Loader=yaml.SafeLoader): the python/ tags have no constructor
YamlSafeLoad(body, st) ==
    LET n == body.node
    IN  CASE ~body.wellformed ->
               [fault |-> "yaml.YAMLError", value |-> PyValue("NoneType", <<>>), store |-> st]
          [] n.tag = "null" -> Constructed(PyValue("NoneType", <<>>), st)
          [] n.tag = "str" -> Constructed(PyValue("str", n.data), st)
          [] n.tag = "int" -> Constructed(PyValue("int", n.data), st)
          [] n.tag = "seq" -> Constructed(PyValue("list", n.data), st)
          [] n.tag = "map" -> Constructed(PyValue("dict", n.data), st)
          [] OTHER ->
               [fault |-> "yaml.constructor.ConstructorError",
                value |-> PyValue("NoneType", <<>>), store |-> st]

\* yaml.load(body, Loader=yaml.Loader): the constructor of the node's tag is
\* run, whatever it is; os.system runs its argument through the shell.
YamlLoad(body, st) ==
    LET n == body.node
    IN  CASE ~body.wellformed ->
               [fault |-> "yaml.YAMLError", value |-> PyValue("NoneType", <<>>), store |-> st]
          [] n.tag = "null" -> Constructed(PyValue("NoneType", <<>>), st)
          [] n.tag = "str" -> Constructed(PyValue("str", n.data), st)
          [] n.tag = "int" -> Constructed(PyValue("int", n.data), st)
          [] n.tag = "seq" -> Constructed(PyValue("list", n.data), st)
          [] n.tag = "map" -> Constructed(PyValue("dict", n.data), st)
          [] n.tag = "python/tuple" -> Constructed(PyValue("tuple", n.data), st)
          [] n.tag = "python/object/apply:os.system" ->
               LET p == ShellRun(n.data[1], st)
               IN  Constructed(PyValue("int", <<WaitStatus(p.code)>>), p.store)
          [] n.tag = "python/name:os.system" ->
               Constructed(PyValue("builtin_function_or_method", <<"system">>), st)
          [] OTHER ->
               [fault |-> "yaml.constructor.ConstructorError",
                value |-> PyValue("NoneType", <<>>), store |-> st]

JsonValue(type, data) == [type |-> type, data |-> data]

\* jsonify(value): the JSON document, or the TypeError of a value that has none.
Jsonify(value) ==
    CASE value.type = "NoneType" -> [fault |-> NoFault, json |-> JsonValue("null", <<>>)]
      [] value.type = "str" -> [fault |-> NoFault, json |-> JsonValue("string", value.data)]
      [] value.type = "int" -> [fault |-> NoFault, json |-> JsonValue("number", value.data)]
      [] value.type \in {"list", "tuple"} ->
           [fault |-> NoFault, json |-> JsonValue("array", value.data)]
      [] value.type = "dict" -> [fault |-> NoFault, json |-> JsonValue("object", value.data)]
      [] OTHER ->
           [fault |-> "TypeError: not JSON serializable", json |-> JsonValue("null", <<>>)]

\* ------------------------------------------------------------------- state
VARIABLES
    phase,         \* "down", "booted" (bootstrap done, app.run not yet called), "up"
    store,         \* what lies at DB_PATH
    startupStore,  \* what lay at DB_PATH when the running bootstrap looked
    openConns,     \* database connections open in the process
    req            \* per request slot: the request being served and its outcome

vars == <<phase, store, startupStore, openConns, req>>

NoResp == [kind |-> "none", status |-> 0, body |-> <<>>]
\* a response the handler returns
Handled(status, body) == [kind |-> "handler", status |-> status, body |-> body]
\* a fault that leaves the handler: the framework's generic error response
Unhandled == [kind |-> "unhandled", status |-> 500, body |-> <<>>]

NoProc == [code |-> 0, out |-> <<>>, err |-> <<>>]

Request(route, pc, arg, query, proc, fault, resp) ==
    [route |-> route, pc |-> pc, arg |-> arg, query |-> query, proc |-> proc,
     fault |-> fault, resp |-> resp]

Idle == Request("none", "idle", Missing, <<>>, NoProc, NoFault, NoResp)

Free(r) == req[r].pc = "idle"

\* --------------------------------------------------------------- bootstrap
\* the store rebuilt at every start, without the exists() test
BootstrapAlways(st) == Database(SeedRows)

\* if not Path(DB_PATH).exists(): connect, CREATE TABLE, INSERT, commit, close
BootstrapStore(st) == IF st.file = "absent" THEN Database(SeedRows) ELSE st

Bootstrap ==
    /\ phase = "down"
    /\ phase' = "booted"
    /\ startupStore' = store
    /\ store' = BootstrapStore(store)
    /\ UNCHANGED <<openConns, req>>

\* app.run(port=5000): the server starts taking requests
Serve ==
    /\ phase = "booted"
    /\ phase' = "up"
    /\ startupStore' = AbsentStore
    /\ UNCHANGED <<store, openConns, req>>

\* app.run returns or the process is stopped: its requests and its
\* connections go with it, the store file stays.
Exit ==
    /\ phase = "up"
    /\ phase' = "down"
    /\ req' = [r \in Slots |-> Idle]
    /\ openConns' = 0
    /\ UNCHANGED <<store, startupStore>>

\* ------------------------------------------------------------------- /user
\* lines 24-27: the id, the query, get_db()
GetUserBegin(r, ids) ==
    /\ phase = "up"
    /\ Free(r)
    /\ \E idParam \in ids :
          LET user_id == ArgsGet(idParam, <<>>)
          IN  req' = [req EXCEPT ![r] =
                        Request("user", "try", idParam, BuildQuery(user_id), NoProc, NoFault, NoResp)]
    /\ store' = ConnectStore(store)
    /\ openConns' = openConns + 1
    /\ UNCHANGED <<phase, startupStore>>

\* the fault of conn.execute caught and reported by the handler
UserOutcomeCaught(q, st) ==
    LET ex == Execute(q, st)
    IN  IF ex.fault # NoFault
        THEN [fault |-> ex.fault, resp |-> Handled(500, <<ex.fault>>)]
        ELSE [fault |-> NoFault, resp |-> Handled(200, [rows |-> ex.rows])]

\* fetchone() in place of fetchall()
UserOutcomeFetchOne(q, st) ==
    LET ex == Execute(q, st)
    IN  IF ex.fault # NoFault
        THEN [fault |-> ex.fault, resp |-> Unhandled]
        ELSE [fault |-> NoFault,
              resp |-> Handled(200, [rows |-> IF ex.rows = <<>> THEN <<>> ELSE <<ex.rows[1]>>])]

\* lines 29-30: the rows as JSON, or the fault of conn.execute
UserOutcome(q, st) ==
    LET ex == Execute(q, st)
    IN  IF ex.fault # NoFault
        THEN [fault |-> ex.fault, resp |-> Unhandled]
        ELSE [fault |-> NoFault, resp |-> Handled(200, [rows |-> ex.rows])]

GetUserExecute(r) ==
    /\ phase = "up"
    /\ req[r].route = "user" /\ req[r].pc = "try"
    /\ LET o == UserOutcome(req[r].query, store)
       IN  req' = [req EXCEPT ![r].pc = "finally", ![r].fault = o.fault, ![r].resp = o.resp]
    /\ UNCHANGED <<phase, store, startupStore, openConns>>

\* line 32: finally conn.close(), then the return or the fault goes on
CloseConn(n) == n - 1

\* conn.close() after the return instead of in a finally
GetUserCloseOnSuccess(r) ==
    /\ phase = "up"
    /\ req[r].route = "user" /\ req[r].pc = "finally"
    /\ openConns' = IF req[r].fault = NoFault THEN CloseConn(openConns) ELSE openConns
    /\ req' = [req EXCEPT ![r].pc = "done"]
    /\ UNCHANGED <<phase, store, startupStore>>

GetUserFinally(r) ==
    /\ phase = "up"
    /\ req[r].route = "user" /\ req[r].pc = "finally"
    /\ openConns' = CloseConn(openConns)
    /\ req' = [req EXCEPT ![r].pc = "done"]
    /\ UNCHANGED <<phase, store, startupStore>>

\* -------------------------------------------------------------------- /run
\* lines 37-38: the command, Popen
RunBegin(r, cmds) ==
    /\ phase = "up"
    /\ Free(r)
    /\ \E cmdParam \in cmds :
          LET cmd == ArgsGet(cmdParam, EchoHello)
              f == SpawnFault(cmd)
          IN  req' = [req EXCEPT ![r] =
                        IF f # NoFault
                        THEN Request("run", "done", cmdParam, <<>>, NoProc, f, Unhandled)
                        ELSE Request("run", "spawned", cmdParam, <<>>, NoProc, NoFault, NoResp)]
    /\ UNCHANGED <<phase, store, startupStore, openConns>>

\* lines 40-42: stderr and 500 on a non-zero return code, stdout otherwise
RunOutcome(p) ==
    LET raw == IF p.code # 0 THEN p.err ELSE p.out
        decoded == Utf8Decode(raw)
    IN  IF ~decoded.ok
        THEN [fault |-> "UnicodeDecodeError", resp |-> Unhandled]
        ELSE [fault |-> NoFault,
              resp |-> Handled(IF p.code # 0 THEN 500 ELSE 200, Utf8Encode(decoded.text))]

\* line 39 on: the command has run, proc.communicate() returns
RunCommunicate(r) ==
    /\ phase = "up"
    /\ req[r].route = "run" /\ req[r].pc = "spawned"
    /\ LET p == ShellRun(ArgsGet(req[r].arg, EchoHello), store)
           o == RunOutcome(p)
       IN  /\ store' = p.store
           /\ req' = [req EXCEPT ![r].pc = "done",
                                 ![r].proc = [code |-> p.code, out |-> p.out, err |-> p.err],
                                 ![r].fault = o.fault, ![r].resp = o.resp]
    /\ UNCHANGED <<phase, startupStore, openConns>>

\* ------------------------------------------------------------------- /read
\* the resolved path required to lie under the working directory
ReadOutcomeContained(filename) ==
    LET rd == OpenAndRead(filename)
        at == Resolve(filename)
    IN  IF at.errno = 0 /\ ~InsideCwd(at.loc)
        THEN [fault |-> NoFault, resp |-> Handled(404, <<"outside the working directory">>)]
        ELSE IF rd.fault # NoFault
        THEN [fault |-> rd.fault, resp |-> Handled(404, ExceptionText(rd, filename))]
        ELSE [fault |-> NoFault, resp |-> Handled(200, Utf8Encode(rd.text))]

\* `except OSError` in place of `except Exception`
ReadOutcomeOSErrorOnly(filename) ==
    LET rd == OpenAndRead(filename)
    IN  IF rd.fault = "OSError"
        THEN [fault |-> rd.fault, resp |-> Handled(404, ExceptionText(rd, filename))]
        ELSE IF rd.fault # NoFault
        THEN [fault |-> rd.fault, resp |-> Unhandled]
        ELSE [fault |-> NoFault, resp |-> Handled(200, Utf8Encode(rd.text))]

\* lines 49-53: the text of the file, or str(e) with 404
ReadOutcome(filename) ==
    LET rd == OpenAndRead(filename)
    IN  IF rd.fault # NoFault
        THEN [fault |-> rd.fault, resp |-> Handled(404, ExceptionText(rd, filename))]
        ELSE [fault |-> NoFault, resp |-> Handled(200, Utf8Encode(rd.text))]

ReadFile(r, files) ==
    /\ phase = "up"
    /\ Free(r)
    /\ \E fileParam \in files :
          LET o == ReadOutcome(ArgsGet(fileParam, ReadmePath))
          IN  req' = [req EXCEPT ![r] =
                        Request("read", "done", fileParam, <<>>, NoProc, o.fault, o.resp)]
    /\ UNCHANGED <<phase, store, startupStore, openConns>>

\* ----------------------------------------------------------------- /config
\* lines 58-60: decode, yaml.load, jsonify; no fault is caught
ConfigOutcome(body, st) ==
    LET y == YamlLoad(body, st)
        j == Jsonify(y.value)
    IN  CASE ~body.utf8 -> [fault |-> "UnicodeDecodeError", resp |-> Unhandled, store |-> st]
          [] y.fault # NoFault -> [fault |-> y.fault, resp |-> Unhandled, store |-> y.store]
          [] j.fault # NoFault -> [fault |-> j.fault, resp |-> Unhandled, store |-> y.store]
          [] OTHER -> [fault |-> NoFault, resp |-> Handled(200, j.json), store |-> y.store]

LoadConfig(r, bodies) ==
    /\ phase = "up"
    /\ Free(r)
    /\ \E body \in bodies :
          LET o == ConfigOutcome(body, store)
          IN  /\ req' = [req EXCEPT ![r] =
                           Request("config", "done", body, <<>>, NoProc, o.fault, o.resp)]
              /\ store' = o.store
    /\ UNCHANGED <<phase, startupStore, openConns>>

\* ------------------------------------------------------------------ server
\* The server sends the slot's response (the handler's, or its own error
\* response for an unhandled fault) and the slot serves the next request.
Respond(r) ==
    /\ phase = "up"
    /\ req[r].pc = "done"
    /\ req' = [req EXCEPT ![r] = Idle]
    /\ UNCHANGED <<phase, store, startupStore, openConns>>

\* ---------------------------------------------------------- specifications
Init ==
    /\ phase = "down"
    /\ store \in StartupStores
    /\ startupStore = AbsentStore
    /\ openConns = 0
    /\ req = [r \in Slots |-> Idle]

Params(S) == {Missing} \cup {Given(v) : v \in S}

\* The requests of the concurrent specification.
SomeIds == Params({<<"1">>, <<"'">>, <<"'", "OR", "'", "1">>})
SomeCommands == Params({"exit 3", Truncate, NulCommand})
SomeFiles == Params({Path(FALSE, <<"..", "..", "etc", "passwd">>), Path(FALSE, <<"does-not-exist.txt">>)})
SomeBodies == {ApplySystem(Truncate), MalformedBody}

\* Requests of all four routes served concurrently in the slots.
Next ==
    \/ Bootstrap
    \/ Serve
    \/ Exit
    \/ \E r \in Slots :
          \/ GetUserBegin(r, SomeIds)
          \/ GetUserExecute(r)
          \/ GetUserFinally(r)
          \/ RunBegin(r, SomeCommands)
          \/ RunCommunicate(r)
          \/ ReadFile(r, SomeFiles)
          \/ LoadConfig(r, SomeBodies)
          \/ Respond(r)

Spec == Init /\ [][Next]_vars

AllIds == Params(SeqsUpTo(IdAlphabet, MaxIdLen))
AllCommands == Params(Commands)
AllFiles == Params({Path(a, s) : a \in BOOLEAN, s \in SeqsUpTo(Segments, MaxPathLen)})

\* One request at a time, with every input up to the bounds.
NextSeq ==
    \/ Bootstrap
    \/ Serve
    \/ Exit
    \/ GetUserBegin(1, AllIds)
    \/ GetUserExecute(1)
    \/ GetUserFinally(1)
    \/ RunBegin(1, AllCommands)
    \/ RunCommunicate(1)
    \/ ReadFile(1, AllFiles)
    \/ LoadConfig(1, Bodies)
    \/ Respond(1)

SpecSeq == Init /\ [][NextSeq]_vars

\* ====================================================================== claims
Done(r, route) == req[r].route = route /\ req[r].pc = "done"

InFlightUsers == {r \in Slots : req[r].route = "user" /\ req[r].pc \in {"try", "finally"}}

TableOf(st) == [table |-> st.table, rows |-> st.rows]

C2_StatusFollowsExitCode ==
    \A r \in Slots :
       (Done(r, "run") /\ SpawnFault(ArgsGet(req[r].arg, EchoHello)) = NoFault) =>
          LET p == req[r].proc
              resp == req[r].resp
          IN  /\ (p.code = 0) <=> (resp = Handled(200, p.out))
              /\ (p.code # 0) => (resp = Handled(500, p.err))
              /\ ~req[r].arg.present =>
                    resp = Handled(200, <<72, 101, 108, 108, 111, 10>>)

\* ---------------------------------------------------------------------- C3
\* C3: every connection /user opens is closed on every exit path, fault or
\* not.  In any interleaving the open connections never outnumber the /user
\* requests in flight (they are exactly those between get_db and close), none
\* is open once every request has finished, and no other handler opens one.
C3_ConnectionsClosed ==
    /\ openConns <= Cardinality(InFlightUsers)
    /\ openConns = Cardinality(InFlightUsers)
    /\ (\A r \in Slots : req[r].pc \in {"idle", "done"}) => openConns = 0

\* one /user request has faulted and finished while another still holds its
\* connection: exactly that one connection is open
C3_Witness ==
    \E r1, r2 \in Slots :
       /\ Done(r1, "user") /\ req[r1].fault # NoFault
       /\ req[r2].route = "user" /\ req[r2].pc = "try"
       /\ openConns = 1

\* ---------------------------------------------------------------------- C4
\* C4: bootstrap is idempotent.  With no store file at startup the store is,
\* after bootstrap, a users table of exactly the rows ('1','alice') and
\* ('2','bob'); with a store file present, whatever it holds, bootstrap leaves
\* it as it was.  The file exists afterwards, so a further bootstrap changes
\* nothing.
C4_BootstrapIdempotent ==
    phase = "booted" =>
       /\ startupStore.file = "absent" =>
             store = [file |-> "db", table |-> TRUE,
                      rows |-> << <<(<<"1">>), "alice">>, <<(<<"2">>), "bob">> >>]
       /\ startupStore.file # "absent" => store = startupStore
       /\ store.file # "absent"
       /\ BootstrapStore(store) = store

\* the process has just bootstrapped a store that was absent
C4_Witness ==
    /\ phase = "booted"
    /\ startupStore.file = "absent"
    /\ store = Database(SeedRows)

\* ---------------------------------------------------------------------- C5
UserId(r) == ArgsGet(req[r].arg, <<>>)

Interpolated(id) == <<"SELECT id, username FROM users WHERE id = ", "'">> \o id \o <<"'">>

Injection == <<"'", "OR", "'", "1">>

IdEquals(rows, id) == SelectSeq(rows, LAMBDA row : row[1] = id)

\* C6 as stated: for every `id` without a quote character GET /user returns
\* the JSON object whose rows are exactly the stored rows with that id, none
\* when no row matches or `id` is absent; id=1 on the seeded store returns
\* ["1","alice"].
C6_UnquotedIdReturnsMatches ==
    \A r \in Slots :
       (Done(r, "user") /\ ~Contains(UserId(r), "'")) =>
          /\ req[r].resp = Handled(200, [rows |-> IdEquals(store.rows, UserId(r))])
          /\ (UserId(r) = <<"1">> /\ store = Database(SeedRows)) =>
                req[r].resp.body.rows = << <<(<<"1">>), "alice">> >>

\* C6, amended: for every `id` with neither a quote nor a NUL character, and
\* a store that holds a users table, GET /user returns 200 with exactly the
\* stored rows whose id equals the value, in stored order (none when no row
\* matches or `id` is absent); id=1 on the seeded store returns ["1","alice"].
\* With a NUL in `id`, or a store file without a users table, execution
\* faults and the fault leaves the handler unhandled.
C6_UnquotedIdMatchesOrFaults ==
    \A r \in Slots :
       (Done(r, "user") /\ ~Contains(UserId(r), "'")) =>
          LET id == UserId(r)
              resp == req[r].resp
          IN  /\ IF ~Contains(id, "NUL") /\ store.file = "db" /\ store.table
                 THEN resp = Handled(200, [rows |-> IdEquals(store.rows, id)])
                 ELSE resp.kind = "unhandled"
              /\ (id = <<"1">> /\ store = Database(SeedRows)) =>
                    resp.body.rows = << <<(<<"1">>), "alice">> >>

\* id=1 has returned alice's row from the seeded store
C6_Witness ==
    \E r \in Slots :
       /\ Done(r, "user")
       /\ req[r].arg = Given(<<"1">>)
       /\ store = Database(SeedRows)
       /\ req[r].resp = Handled(200, [rows |-> <<Row(<<"1">>, "alice")>>])

\* ---------------------------------------------------------------------- C7
Serving == phase = "up" /\ phase' = "up"

WritesStore(cmd) == \E st \in StartupStores : ShellRun(cmd, st).store # st

C8_DirectiveReflected ==
    \A r \in Slots :
       (Done(r, "config") /\ IsDirective(req[r].arg)) =>
          /\ req[r].fault = NoFault
          /\ req[r].resp.kind = "handler" /\ req[r].resp.status = 200

\* C8, amended: a /config body with an object-construction directive is
\* given to the unrestricted loader, which runs the constructor it names
\* (os.system runs its command, here emptying the store file).  The answer is
\* 200 with the JSON encoding of the value when the construction succeeds and
\* the value has a JSON encoding (a tuple is reflected as an array, the
\* status of os.system as a number); when the directive names nothing
\* callable, or the value has no JSON encoding (a function), the fault leaves
\* the handler unhandled.
C8_DirectiveConstructed ==
    \A r \in Slots :
       (Done(r, "config") /\ IsDirective(req[r].arg)) =>
          LET n == req[r].arg.node
              resp == req[r].resp
          IN  /\ n.tag = "python/tuple" => resp = Handled(200, JsonValue("array", n.data))
              /\ req[r].arg = ApplySystem(Truncate) =>
                    /\ resp = Handled(200, JsonValue("number", <<"0">>))
                    /\ store = EmptyFile
              /\ req[r].arg = ApplySystem("exit 3") =>
                    resp = Handled(200, JsonValue("number", <<"768">>))
              /\ n.tag = "python/name:os.system" =>
                    /\ resp.kind = "unhandled"
                    /\ req[r].fault = "TypeError: not JSON serializable"
              /\ n.tag = "python/object/apply:nosuch.f" =>
                    /\ resp.kind = "unhandled"
                    /\ req[r].fault = "yaml.constructor.ConstructorError"
              /\ (resp.kind = "handler") <=> (req[r].fault = NoFault)
              /\ resp.kind = "handler" => resp.status = 200

\* the directive !!python/object/apply:os.system [": > test.db"] was loaded:
\* the command ran and its status was reflected
C8_Witness ==
    \E r \in Slots :
       /\ Done(r, "config")
       /\ req[r].arg = ApplySystem(Truncate)
       /\ req[r].resp = Handled(200, JsonValue("number", <<"0">>))
       /\ store = EmptyFile

\* ---------------------------------------------------------------------- C9
\* C9: GET /read applies no path containment.  For every `file` value, also
\* one that resolves outside the working directory (through .. or an absolute
\* path), the answer is 200 with the contents exactly when the resolved path
\* is a readable UTF-8 file; where the path resolves to plays no part.
C9_NoPathContainment ==
    \A r \in Slots :
       Done(r, "read") =>
          LET at == Resolve(ArgsGet(req[r].arg, ReadmePath))
              readable == /\ at.errno = 0 /\ at.loc \in FilePaths /\ Readable(at.loc)
                          /\ Utf8Decode(FileBytes(at.loc)).ok
          IN  /\ (req[r].resp.status = 200) <=> readable
              /\ (readable /\ ~InsideCwd(at.loc)) =>
                    req[r].resp = Handled(200, FileBytes(at.loc))

\* ../../etc/passwd, outside the working directory, was read and returned
C9_Witness ==
    \E r \in Slots :
       /\ Done(r, "read")
       /\ req[r].arg = Given(Path(FALSE, <<"..", "..", "etc", "passwd">>))
       /\ ~InsideCwd(Resolve(req[r].arg.value).loc)
       /\ req[r].resp = Handled(200, <<114, 111, 111, 116, 10>>)

\* --------------------------------------------------------------------- C10
\* C10: /read is the only route that catches faults.  A fault of query
\* execution in /user, of spawning (or decoding) in /run, or of
\* deserialization in /config is never turned into a response of the handler:
\* it leaves the handler unhandled, and in /user the connection is closed
\* before it does.  A fault in /read always becomes the handler's 404.
C10_ErrorPolicyPerRoute ==
    /\ \A r \in Slots :
          (req[r].pc = "done" /\ req[r].fault # NoFault) =>
             IF req[r].route = "read"
             THEN req[r].resp.kind = "handler" /\ req[r].resp.status = 404
             ELSE req[r].resp = Unhandled
    /\ \A r \in Slots : req[r].resp.kind = "unhandled" => req[r].fault # NoFault
    /\ ((\E r \in Slots : Done(r, "user") /\ req[r].fault # NoFault) /\ InFlightUsers = {})
          => openConns = 0

\* a query fault of /user and a spawning fault of /run have both left their
\* handlers unhandled, and the connection of /user is closed
C10_Witness ==
    \E r1, r2 \in Slots :
       /\ Done(r1, "user") /\ req[r1].fault = "OperationalError: syntax error"
       /\ Done(r2, "run") /\ req[r2].fault = "ValueError: embedded null byte"
       /\ req[r1].resp = Unhandled /\ req[r2].resp = Unhandled
       /\ openConns = 0

====
